---- MODULE Spec2Model ----
(***************************************************************************)
(* Model of the stock-options endpoint in its two deployment variants:     *)
(*   src/api/stock-options.py  (handler.do_GET, a BaseHTTPRequestHandler)  *)
(*   src/api/index.py          (get_options, a FastAPI route)              *)
(* together with the data-cleaning helpers safe_float, safe_int and        *)
(* clean_options_data.                                                     *)
(*                                                                         *)
(* Python values are records [t, k, v]: t is the Python type, k the kind   *)
(* of number ("fin", "nan", "inf", "ninf") or the text of a string, and v  *)
(* the magnitude of a finite number.                                       *)
(***************************************************************************)
EXTENDS Integers, Sequences, FiniteSets, TLC

(* ------------------------------------------------------------------ *)
(* Bounds of the model                                                  *)
(* ------------------------------------------------------------------ *)
MaxRows == 2

MaxExpirations == 2

(* ------------------------------------------------------------------ *)
(* Python values                                                        *)
(* ------------------------------------------------------------------ *)
PyVal(t, k, v) == [t |-> t, k |-> k, v |-> v]

None == PyVal("NoneType", "-", 0)

PyFloat(n) == PyVal("float", "fin", n)

PyInt(n) == PyVal("int", "fin", n)

PyStr(s) == PyVal("str", s, 0)

PyBool(b) == PyVal("bool", "fin", IF b THEN 1 ELSE 0)

NaN == PyVal("float", "nan", 0)

Inf == PyVal("float", "inf", 0)

NegInf == PyVal("float", "ninf", 0)

NpFloat32(k, n) == PyVal("numpy.float32", k, n)

NpFloat64(k, n) == PyVal("numpy.float64", k, n)

Timestamp(n) == PyVal("Timestamp", "fin", n)

NaT == PyVal("NaTType", "nan", 0)

\* An exception leaving a call, with the name of its class.
Raised(cls) == PyVal("raise", cls, 0)

IsRaised(x) == x.t = "raise"

FloatTypes == {"float", "numpy.float32", "numpy.float64"}

NumberTypes == FloatTypes \cup {"int", "bool"}

\* A finite number, of whatever numeric type.
IsFinite(x) == x.t \in NumberTypes /\ x.k = "fin"

\* NaN, +Infinity or -Infinity, of whatever numeric type.
IsNonFinite(x) == x.t \in FloatTypes /\ x.k \in {"nan", "inf", "ninf"}

(* ------------------------------------------------------------------ *)
(* Python and pandas built-ins used by the source                       *)
(* ------------------------------------------------------------------ *)
\* pandas.isna on a scalar: None, NaN of any float type, NaT.
pd_isna(x) ==
    \/ x.t = "NoneType"
    \/ x.t = "NaTType"
    \/ (x.t \in FloatTypes /\ x.k = "nan")

pd_notna(x) == ~pd_isna(x)

\* isinstance(value, (int, float)): bool subclasses int, numpy.float64
\* subclasses float; numpy.float32 subclasses neither.
isinstance_int_float(x) == x.t \in {"int", "float", "bool", "numpy.float64"}

\* math.isnan(value) or math.isinf(value)
math_isnan_or_isinf(x) == x.k \in {"nan", "inf", "ninf"}

\* The strings float() and int() accept as literals, with their value.
NumericLiteral(s) ==
    CASE s = "7" -> PyFloat(7)
      [] s = "inf" -> Inf
      [] s = "nan" -> NaN
      [] OTHER -> Raised("ValueError")

\* float(value)
float(x) ==
    CASE x.t \in NumberTypes -> PyVal("float", x.k, x.v)
      [] x.t = "str" -> NumericLiteral(x.k)
      [] OTHER -> Raised("TypeError")

\* int(value)
int(x) ==
    CASE x.t \in NumberTypes /\ x.k = "fin" -> PyInt(x.v)
      [] x.t \in NumberTypes /\ x.k = "nan" -> Raised("ValueError")
      [] x.t \in NumberTypes -> Raised("OverflowError")
      [] x.t = "str" /\ x.k = "7" -> PyInt(7)
      [] x.t = "str" -> Raised("ValueError")
      [] OTHER -> Raised("TypeError")

\* bool(value): the truth value Python's `or`, `not` and `if` use.
Truthy(x) ==
    CASE x.t = "NoneType" -> FALSE
      [] x.t \in NumberTypes -> ~(x.k = "fin" /\ x.v = 0)
      [] x.t = "str" -> x.k # ""
      [] OTHER -> TRUE

\* a or b
PyOr(a, b) == IF Truthy(a) THEN a ELSE b

\* str(value)
str(x) ==
    CASE x.t = "str" -> x
      [] x.t = "NoneType" -> PyStr("None")
      [] x.t = "NaTType" -> PyStr("NaT")
      [] x.t = "bool" -> PyStr(IF x.v = 1 THEN "True" ELSE "False")
      [] x.k = "nan" -> PyStr("nan")
      [] x.k = "inf" -> PyStr("inf")
      [] x.k = "ninf" -> PyStr("-inf")
      [] x.t = "int" -> PyStr(ToString(x.v))
      [] x.t = "Timestamp" -> PyStr("1970-01-01 00:00:0" \o ToString(x.v))
      [] OTHER -> PyStr(ToString(x.v) \o ".0")

\* pandas.Timestamp(value).isoformat()
Timestamp_isoformat(x) ==
    CASE x.t = "Timestamp" -> PyStr("1970-01-01T00:00:0" \o ToString(x.v))
      [] x.t \in NumberTypes \ {"bool"} /\ x.k = "fin" ->
            PyStr("1970-01-01T00:00:00.00000000" \o ToString(x.v))
      [] x.t = "str" -> Raised("ValueError")
      [] x.t \in NumberTypes \ {"bool"} -> Raised("OverflowError")
      [] OTHER -> Raised("TypeError")

(* ------------------------------------------------------------------ *)
(* safe_float, safe_int                                                 *)
(* ------------------------------------------------------------------ *)
safe_float(value) ==
    IF value.t = "NoneType" THEN None
    ELSE IF pd_isna(value) THEN None
    ELSE IF isinstance_int_float(value) /\ math_isnan_or_isinf(value) THEN None
    ELSE float(value)

safe_int(value) ==
    IF value.t = "NoneType" \/ pd_isna(value) THEN None
    ELSE IF IsRaised(int(value)) THEN None
    ELSE int(value)

(* ------------------------------------------------------------------ *)
(* clean_options_data                                                   *)
(* A DataFrame is [columns: set of column names, rows: sequence of      *)
(* functions from the columns to Python values].                        *)
(* ------------------------------------------------------------------ *)
Variants == {"do_GET", "get_options"}

Range(f) == {f[i] : i \in DOMAIN f}

\* columns_to_keep of either file.
columns_to_keep(variant) ==
    IF variant = "do_GET"
    THEN <<"contractSymbol", "strike", "lastPrice", "bid", "ask", "change",
           "percentChange", "volume", "openInterest", "impliedVolatility",
           "inTheMoney", "lastTradeDate">>
    ELSE <<"contractSymbol", "strike", "lastPrice", "bid", "ask", "volume",
           "openInterest", "impliedVolatility", "inTheMoney">>

\* [c for c in columns_to_keep if c in df.columns]
existing_cols(variant, df) ==
    {c \in Range(columns_to_keep(variant)) : c \in df.columns}

\* DataFrame.empty: no rows or no columns.
df_empty(df) == df.rows = <<>> \/ df.columns = {}

\* lastTradeDate of stock-options.py: ISO string, str(value) when the
\* timestamp cannot be built, None when the value is missing.
clean_lastTradeDate(value) ==
    IF pd_notna(value)
    THEN IF IsRaised(Timestamp_isoformat(value)) THEN str(value)
         ELSE Timestamp_isoformat(value)
    ELSE None

\* The per-key branch of the record loop; a raised value is an exception
\* leaving the loop.
clean_field(variant, key, value) ==
    IF key = "contractSymbol"
    THEN IF value.t # "NoneType" THEN str(value) ELSE None
    ELSE IF key = "inTheMoney"
    THEN IF pd_notna(value) THEN PyBool(Truthy(value)) ELSE PyBool(FALSE)
    ELSE IF variant = "do_GET" /\ key \in {"volume", "openInterest"}
    THEN safe_int(value)
    ELSE IF variant = "do_GET" /\ key = "lastTradeDate"
    THEN clean_lastTradeDate(value)
    ELSE safe_float(value)

\* The keys of a cleaned record: stock-options.py stamps expirationDate.
cleaned_keys(variant, df) ==
    existing_cols(variant, df)
        \cup (IF variant = "do_GET" THEN {"expirationDate"} ELSE {})

cleaned_record(variant, df, record, expiration_date) ==
    [key \in cleaned_keys(variant, df) |->
        IF key \in existing_cols(variant, df)
        THEN clean_field(variant, key, record[key])
        ELSE PyStr(expiration_date)]

\* The outcome of clean_options_data: the records, or the exception that
\* leaves it (raised = TRUE).
clean_options_data(variant, df, expiration_date) ==
    IF df_empty(df) THEN [raised |-> FALSE, records |-> <<>>]
    ELSE LET cleaned_records ==
                 [i \in 1..Len(df.rows) |->
                     cleaned_record(variant, df, df.rows[i], expiration_date)]
         IN IF \E i \in 1..Len(df.rows) :
                   \E key \in DOMAIN cleaned_records[i] :
                       IsRaised(cleaned_records[i][key])
            THEN [raised |-> TRUE, records |-> <<>>]
            ELSE [raised |-> FALSE, records |-> cleaned_records]

(* ------------------------------------------------------------------ *)
(* Strings the handler inspects are sequences of characters.            *)
(* ------------------------------------------------------------------ *)
\* s.startswith(prefix)
startswith(s, prefix) ==
    /\ Len(prefix) <= Len(s)
    /\ SubSeq(s, 1, Len(prefix)) = prefix

\* needle in s
contains(s, needle) ==
    \E i \in 0..(Len(s) - Len(needle)) :
        SubSeq(s, i + 1, i + Len(needle)) = needle

\* c.upper() for the characters of the model's symbols
upper_char(c) ==
    CASE c = "a" -> "A"
      [] c = "b" -> "B"
      [] OTHER -> c

\* s.upper()
upper(s) == [i \in 1..Len(s) |-> upper_char(s[i])]

RECURSIVE lstrip(_)
lstrip(s) == IF s # <<>> /\ s[1] = " " THEN lstrip(Tail(s)) ELSE s

RECURSIVE rstrip(_)
rstrip(s) ==
    IF s # <<>> /\ s[Len(s)] = " " THEN rstrip(SubSeq(s, 1, Len(s) - 1)) ELSE s

\* s.strip()
strip(s) == rstrip(lstrip(s))

\* A header or query parameter: absent (get() gives None) or a string.
Absent == [present |-> FALSE, s |-> <<>>]

Given(s) == [present |-> TRUE, s |-> s]

\* The truth value with only None false.
Nonempty_none_only(x) == x.present

\* The truth value of an optional string: None and "" are false.
Nonempty(x) == x.present /\ x.s # <<>>

LOCALHOST == <<"l", "o", "c", "a", "l", "h", "o", "s", "t">>

\* 'http://localhost:3000', the default of ALLOWED_ORIGIN
DefaultOrigin ==
    <<"h", "t", "t", "p", ":", "/", "/">> \o LOCALHOST \o <<":", "3", "0", "0", "0">>

\* A deployed VITE_APP_URL, and a foreign site.
AppOrigin == <<"h", "t", "t", "p", "s", ":", "/", "/", "a", ".", "i", "o">>

OtherOrigin == <<"h", "t", "t", "p", "s", ":", "/", "/", "x", ".", "i", "o">>

(* ------------------------------------------------------------------ *)
(* State                                                                *)
(* ------------------------------------------------------------------ *)
VARIABLES
    variant,            \* which file serves the request
    ALLOWED_ORIGIN,     \* module constant read from the environment
    headers,            \* request headers Origin and Referer
    query,              \* query parameters symbol and expiration
    pc,                 \* position of the handler
    symbol,             \* locals of the handler
    all_expirations,
    target_expiration,
    options_chain,
    current_price,
    response,
    exc,                \* the exception being handled, "" when none
    log,                \* steps taken and provider calls made, in order
    out,                \* send_response / wfile.write calls, in order
    escaped,            \* an exception left the handler
    job,                \* input of a pure-function run
    result              \* its outcome

handlerVars ==
    <<variant, ALLOWED_ORIGIN, headers, query, pc, symbol, all_expirations,
      target_expiration, options_chain, current_price, response, exc, log,
      out, escaped>>

pureVars == <<job, result>>

vars == <<handlerVars, pureVars>>

(* ------------------------------------------------------------------ *)
(* What the request and the provider (yfinance) may hand the handler    *)
(* ------------------------------------------------------------------ *)
AbsentDate == [present |-> FALSE, s |-> ""]

GivenDate(d) == [present |-> TRUE, s |-> d]

\* Values of ALLOWED_ORIGIN
AllowedOrigins == {DefaultOrigin, AppOrigin}

\* Origin / Referer pairs of a request
HeaderPairs ==
    { [Origin |-> Absent, Referer |-> Absent],
      [Origin |-> Given(AppOrigin), Referer |-> Absent],
      [Origin |-> Absent, Referer |-> Given(AppOrigin \o <<"/", "p">>)],
      [Origin |-> Given(OtherOrigin), Referer |-> Given(AppOrigin \o <<"/", "p">>)],
      [Origin |-> Given(OtherOrigin), Referer |-> Given(OtherOrigin)],
      [Origin |-> Given(<<>>), Referer |-> Given(<<"a", ".", "i", "o">>)] }

\* symbol query parameter: missing, empty, or a ticker to normalise
Symbols == {Absent, Given(<<>>), Given(<<" ", "a", "b", " ">>)}

\* expiration query parameter
Expirations == {AbsentDate, GivenDate("2024-02-16"), GivenDate("2099-01-01")}

\* Date strings ticker.options may hold; "tbd" is not a date.
ExpirationDates == {"2024-01-19", "2024-02-16", "tbd"}

\* Non-empty expiration tuples: distinct dates, at most MaxExpirations.
ExpirationLists ==
    UNION { { l \in [1..n -> ExpirationDates] :
                  \A i, j \in 1..n : i # j => l[i] # l[j] } :
            n \in 1..MaxExpirations }

\* ticker.options: raises, gives None, or gives a tuple (possibly empty).
OptionsResults ==
    { [raised |-> TRUE, none |-> FALSE, list |-> <<>>],
      [raised |-> FALSE, none |-> TRUE, list |-> <<>>],
      [raised |-> FALSE, none |-> FALSE, list |-> <<>>] }
    \cup { [raised |-> FALSE, none |-> FALSE, list |-> l] : l \in ExpirationLists }

ChainColumns ==
    {"contractSymbol", "strike", "volume", "inTheMoney", "lastTradeDate", "currency"}

GoodRow ==
    [c \in ChainColumns |->
        CASE c = "contractSymbol" -> PyStr("AB240119C00100000")
          [] c = "strike" -> PyFloat(100)
          [] c = "volume" -> PyFloat(12)
          [] c = "inTheMoney" -> PyBool(TRUE)
          [] c = "lastTradeDate" -> Timestamp(1)
          [] OTHER -> PyStr("USD")]

\* Missing values as pandas gives them.
DirtyRow ==
    [c \in ChainColumns |->
        CASE c = "contractSymbol" -> PyStr("AB240119C00105000")
          [] c = "strike" -> NaN
          [] c = "volume" -> NaN
          [] c = "inTheMoney" -> None
          [] c = "lastTradeDate" -> NaT
          [] OTHER -> PyStr("USD")]

EmptyDF == [columns |-> ChainColumns, rows |-> <<>>]

GoodDF == [columns |-> ChainColumns, rows |-> <<GoodRow>>]

DirtyDF == [columns |-> ChainColumns, rows |-> <<GoodRow, DirtyRow>>]

\* A strike the provider left as text.
TextDF ==
    [columns |-> ChainColumns,
     rows |-> <<[GoodRow EXCEPT !["strike"] = PyStr("abc")]>>]

NoChain == [calls |-> EmptyDF, puts |-> EmptyDF]

\* ticker.option_chain(date): raises or gives the two tables.
ChainResults ==
    { [raised |-> TRUE, chain |-> NoChain] }
    \cup { [raised |-> FALSE, chain |-> [calls |-> c, puts |-> p]] :
             c \in {EmptyDF, GoodDF, DirtyDF, TextDF}, p \in {EmptyDF, GoodDF} }

\* ticker.info: raises or gives a dict; a missing key reads as None.
InfoResults ==
    { [raised |-> TRUE, currentPrice |-> None, regularMarketPrice |-> None] }
    \cup { [raised |-> FALSE, currentPrice |-> c, regularMarketPrice |-> r] :
             c \in {None, PyFloat(5), NaN, PyStr("N/A")}, r \in {None} }
    \cup { [raised |-> FALSE, currentPrice |-> PyFloat(0),
            regularMarketPrice |-> PyFloat(7)] }

\* ticker.fast_info.get('lastPrice'): raises or gives a value or None.
FastResults ==
    { [raised |-> TRUE, lastPrice |-> None],
      [raised |-> FALSE, lastPrice |-> None],
      [raised |-> FALSE, lastPrice |-> PyFloat(6)] }

\* ticker.history(period='1d'): raises, is empty, or has a last Close.
HistoryResults ==
    { [raised |-> TRUE, empty |-> TRUE, close |-> None],
      [raised |-> FALSE, empty |-> TRUE, close |-> None],
      [raised |-> FALSE, empty |-> FALSE, close |-> NpFloat64("fin", 8)],
      [raised |-> FALSE, empty |-> FALSE, close |-> NpFloat64("nan", 0)] }

\* datetime.now(): a day number and the seconds into that day.
Now == [day |-> 30, secs |-> 1]

(* ------------------------------------------------------------------ *)
(* Responses                                                            *)
(* ------------------------------------------------------------------ *)
NoBody == [none |-> TRUE]

\* send_response(code) with its headers, up to end_headers(); cors tells
\* whether the Access-Control-* headers of _set_headers were sent.
StatusLine(code, cors) ==
    [op |-> "send_response", code |-> code, cors |-> cors, body |-> NoBody]

\* wfile.write(json.dumps(body).encode())
BodyWrite(body) == [op |-> "wfile.write", code |-> 0, cors |-> FALSE, body |-> body]

\* _set_headers(status_code)
set_headers(status_code) == <<StatusLine(status_code, TRUE)>>

\* An entry of the log: a step of the handler or a call to the provider.
\* A call has the argument that matters, whether it raised, and the price
\* it yielded (None when it raised or had nothing).
Step(name) == [name |-> name, arg |-> "", raised |-> FALSE, ret |-> None]

Call(name, arg, raised, ret) ==
    [name |-> name, arg |-> arg, raised |-> raised, ret |-> ret]

\* do_GET answers inside its try block: the status line, then the body;
\* the write may raise (the peer is gone), and the except clause then runs.
\* get_options raises HTTPException, which the framework turns into the
\* one response.
Reply(status_line, body) ==
    /\ response' = body
    /\ out' = out \o status_line \o <<BodyWrite(body)>>
    /\ IF variant = "do_GET"
       THEN \E fault \in BOOLEAN :
               /\ pc' = IF fault THEN "except" ELSE "done"
               /\ exc' = IF fault THEN "BrokenPipeError" ELSE exc
       ELSE pc' = "done" /\ exc' = exc

\* An exception swallowed the way the price lookups swallow theirs.
Raise_silent(e) ==
    /\ exc' = e
    /\ pc' = "done"
    /\ UNCHANGED <<response, out>>

\* An exception inside the try block. do_GET goes to its except clause;
\* get_options converts it to HTTPException(500).
Raise(e) ==
    /\ exc' = e
    /\ IF variant = "do_GET"
       THEN /\ pc' = "except"
            /\ UNCHANGED <<response, out>>
       ELSE /\ pc' = "done"
            /\ response' = [detail |-> "Error fetching options data: " \o e]
            /\ out' = out \o <<StatusLine(500, FALSE), BodyWrite(response')>>

(* ------------------------------------------------------------------ *)
(* is_authorized (stock-options.py)                                     *)
(* ------------------------------------------------------------------ *)
\* is_authorized looking at the Origin header alone.
is_authorized_origin_only ==
    IF contains(ALLOWED_ORIGIN, LOCALHOST) THEN TRUE
    ELSE Nonempty(headers.Origin) /\ startswith(headers.Origin.s, ALLOWED_ORIGIN)

is_authorized ==
    IF contains(ALLOWED_ORIGIN, LOCALHOST) THEN TRUE
    ELSE IF Nonempty(headers.Origin) /\ startswith(headers.Origin.s, ALLOWED_ORIGIN)
    THEN TRUE
    ELSE IF Nonempty(headers.Referer) /\ startswith(headers.Referer.s, ALLOWED_ORIGIN)
    THEN TRUE
    ELSE FALSE

\* The security check that opens do_GET.
Authorize ==
    /\ pc = "start"
    /\ variant = "do_GET"
    /\ log' = Append(log, Step("is_authorized"))
    /\ IF ~is_authorized
       THEN Reply(<<StatusLine(403, FALSE)>>,
                  [error |-> "Forbidden: Access denied from this origin."])
       ELSE /\ pc' = "parse"
            /\ UNCHANGED <<response, out, exc>>
    /\ UNCHANGED <<variant, ALLOWED_ORIGIN, headers, query, symbol,
                   all_expirations, target_expiration, options_chain,
                   current_price, escaped, pureVars>>

(* ------------------------------------------------------------------ *)
(* Parameters                                                           *)
(* ------------------------------------------------------------------ *)
\* symbol.upper().strip()
normalize(sym) == strip(upper(sym))

\* Reading the query parameters; a missing symbol ends the request.
Parse ==
    /\ pc = "parse"
    /\ log' = Append(log, Step("parse"))
    /\ IF ~Nonempty(query.symbol)
       THEN /\ IF variant = "do_GET"
               THEN Reply(set_headers(400), [error |-> "Missing symbol parameter"])
               ELSE Reply(<<StatusLine(400, FALSE)>>,
                          [detail |-> "Missing 'symbol' parameter"])
            /\ UNCHANGED symbol
       ELSE /\ symbol' = normalize(query.symbol.s)
            /\ pc' = "options"
            /\ UNCHANGED <<response, out, exc>>
    /\ UNCHANGED <<variant, ALLOWED_ORIGIN, headers, query, all_expirations,
                   target_expiration, options_chain, current_price, escaped,
                   pureVars>>

(* ------------------------------------------------------------------ *)
(* Expirations and the option chain                                     *)
(* ------------------------------------------------------------------ *)
\* expiration in all_expirations
is_member(expiration, expirations) ==
    expiration.present /\ \E i \in 1..Len(expirations) : expirations[i] = expiration.s

\* The target with the membership test dropped: the caller's value wins.
select_unchecked(expiration, expirations) ==
    IF variant = "do_GET" /\ expiration.present THEN expiration.s
    ELSE expirations[1]

\* do_GET: expiration if expiration in all_expirations else all_expirations[0]
\* get_options takes no expiration parameter: expirations[0]
select_expiration(expiration, expirations) ==
    IF variant = "do_GET" /\ is_member(expiration, expirations)
    THEN expiration.s
    ELSE expirations[1]

\* `not all_expirations or len(all_expirations) == 0` with the test
\* for None only.
no_options_none_only(res) == res.none

\* not all_expirations or len(all_expirations) == 0
no_options(res) == res.none \/ Len(res.list) = 0

\* ticker.options, then the choice of the target expiration.
FetchExpirations ==
    /\ pc = "options"
    /\ \E res \in OptionsResults :
        /\ log' = Append(log, Call("options", "", res.raised, None))
        /\ IF res.raised
           THEN /\ Raise("options")
                /\ UNCHANGED <<all_expirations, target_expiration>>
           ELSE IF no_options(res)
           THEN /\ IF variant = "do_GET"
                   THEN Reply(set_headers(404),
                              [error |-> "No options data available"])
                   ELSE Reply(<<StatusLine(404, FALSE)>>,
                              [detail |-> "No options data available"])
                /\ UNCHANGED <<all_expirations, target_expiration>>
           ELSE IF Len(res.list) = 0
           \* all_expirations[0] of an empty tuple
           THEN /\ Raise("IndexError")
                /\ UNCHANGED <<all_expirations, target_expiration>>
           ELSE /\ all_expirations' = res.list
                /\ target_expiration' = select_expiration(query.expiration, res.list)
                /\ pc' = "chain"
                /\ UNCHANGED <<response, out, exc>>
    /\ UNCHANGED <<variant, ALLOWED_ORIGIN, headers, query, symbol,
                   options_chain, current_price, escaped, pureVars>>

\* options_chain.calls.empty and options_chain.puts.empty
no_contracts(chain) == df_empty(chain.calls) /\ df_empty(chain.puts)

\* ticker.option_chain(target_expiration)
FetchChain ==
    /\ pc = "chain"
    /\ \E res \in ChainResults :
        /\ log' = Append(log, Call("option_chain", target_expiration, res.raised, None))
        /\ IF res.raised
           THEN /\ Raise("option_chain")
                /\ UNCHANGED options_chain
           ELSE IF no_contracts(res.chain)
           THEN /\ IF variant = "do_GET"
                   THEN Reply(set_headers(404),
                              [error |-> "No options contracts found"])
                   ELSE Reply(<<StatusLine(404, FALSE)>>,
                              [detail |-> "No options contracts found"])
                /\ options_chain' = res.chain
           ELSE /\ options_chain' = res.chain
                /\ pc' = "info"
                /\ UNCHANGED <<response, out, exc>>
    /\ UNCHANGED <<variant, ALLOWED_ORIGIN, headers, query, symbol,
                   all_expirations, target_expiration, current_price, escaped,
                   pureVars>>

(* ------------------------------------------------------------------ *)
(* Current price                                                        *)
(* ------------------------------------------------------------------ *)
\* Where the handler goes after ticker.info when it has no price yet:
\* get_options asks fast_info, do_GET goes straight to history.
after_info == IF variant = "get_options" THEN "fast" ELSE "history"

\* info.get('currentPrice') or info.get('regularMarketPrice'), inside
\* try / except: pass
PriceInfo ==
    /\ pc = "info"
    /\ \E res \in InfoResults :
        LET price == IF res.raised THEN None
                     ELSE PyOr(res.currentPrice, res.regularMarketPrice)
        IN /\ log' = Append(log, Call("info", "", res.raised, price))
           /\ current_price' = price
           /\ pc' = IF price = None THEN after_info ELSE "build"
    /\ UNCHANGED <<variant, ALLOWED_ORIGIN, headers, query, symbol,
                   all_expirations, target_expiration, options_chain,
                   response, exc, out, escaped, pureVars>>

\* ticker.fast_info.get('lastPrice'), inside try / except: pass
\* (index.py only)
PriceFast ==
    /\ pc = "fast"
    /\ \E res \in FastResults :
        LET price == IF res.raised THEN None ELSE res.lastPrice
        IN /\ log' = Append(log, Call("fast_info", "", res.raised, price))
           /\ current_price' = price
           /\ pc' = IF price = None THEN "history" ELSE "build"
    /\ UNCHANGED <<variant, ALLOWED_ORIGIN, headers, query, symbol,
                   all_expirations, target_expiration, options_chain,
                   response, exc, out, escaped, pureVars>>

\* ticker.history(period='1d'); hist['Close'].iloc[-1] unless hist.empty,
\* inside try / except: pass
PriceHistory ==
    /\ pc = "history"
    /\ \E res \in HistoryResults :
        LET price == IF res.raised \/ res.empty THEN None ELSE res.close
        IN /\ log' = Append(log, Call("history", "1d", res.raised, price))
           /\ current_price' = price
           /\ pc' = "build"
    /\ UNCHANGED <<variant, ALLOWED_ORIGIN, headers, query, symbol,
                   all_expirations, target_expiration, options_chain,
                   response, exc, out, escaped, pureVars>>

(* ------------------------------------------------------------------ *)
(* Building the 200 response                                            *)
(* ------------------------------------------------------------------ *)
\* datetime.strptime(s, '%Y-%m-%d') as a day number; -1 when it raises.
strptime_day(s) ==
    CASE s = "2024-01-19" -> 19
      [] s = "2024-02-16" -> 47
      [] s = "2099-01-01" -> 27394
      [] OTHER -> -1

\* (exp_date - datetime.now()).days
days_between(day, now) == IF now.secs > 0 THEN day - now.day - 1 ELSE day - now.day

\* calculate_days_to_expiration: max(0, days), None when parsing raises.
calculate_days_to_expiration(expiration_date_str) ==
    IF strptime_day(expiration_date_str) = -1 THEN None
    ELSE IF days_between(strptime_day(expiration_date_str), Now) > 0
    THEN PyInt(days_between(strptime_day(expiration_date_str), Now))
    ELSE PyInt(0)

\* One entry of expirationOptions.
expiration_option(exp_date) ==
    LET days_to_exp == calculate_days_to_expiration(exp_date)
    IN [date |-> exp_date,
        daysToExpiration |-> days_to_exp,
        label |-> IF days_to_exp # None
                  THEN exp_date \o " (" \o ToString(days_to_exp.v) \o " days)"
                  ELSE exp_date]

\* safe_float(current_price) or 0
price_or_zero(price) == PyOr(safe_float(price), PyInt(0))

\* The response dict of either file.
build_response(price, calls, puts) ==
    IF variant = "do_GET"
    THEN [symbol |-> symbol,
          currentPrice |-> price,
          selectedExpiration |-> target_expiration,
          expirationOptions |->
              [i \in 1..Len(all_expirations) |-> expiration_option(all_expirations[i])],
          calls |-> calls,
          puts |-> puts,
          timestamp |-> Now]
    ELSE [symbol |-> symbol,
          currentPrice |-> price,
          expirationDate |-> target_expiration,
          allExpirations |-> all_expirations,
          calls |-> calls,
          puts |-> puts,
          timestamp |-> Now]

\* From `current_price = safe_float(current_price) or 0` to the 200
\* response. Every step here is inside the try block: a raise from
\* safe_float or from clean_options_data goes to the except clause.
Build ==
    /\ pc = "build"
    /\ log' = Append(log, Step("build"))
    /\ LET price == safe_float(current_price)
           calls == clean_options_data(variant, options_chain.calls, target_expiration)
           puts == clean_options_data(variant, options_chain.puts, target_expiration)
       IN IF IsRaised(price)
          THEN Raise("safe_float: " \o price.k) /\ UNCHANGED current_price
          ELSE /\ current_price' = price_or_zero(current_price)
               /\ IF calls.raised \/ puts.raised
                  THEN Raise("clean_options_data: ValueError")
                  ELSE Reply(IF variant = "do_GET" THEN set_headers(200)
                             ELSE <<StatusLine(200, FALSE)>>,
                             build_response(current_price', calls.records,
                                            puts.records))
    /\ UNCHANGED <<variant, ALLOWED_ORIGIN, headers, query, symbol,
                   all_expirations, target_expiration, options_chain, escaped,
                   pureVars>>

\* The except clause of do_GET: _set_headers(500) and the error body.
\* A write that raises here leaves do_GET.
HandleException ==
    /\ pc = "except"
    /\ variant = "do_GET"
    /\ log' = Append(log, Step("except"))
    /\ response' = [error |-> "Internal server error: " \o exc]
    /\ out' = out \o set_headers(500) \o <<BodyWrite(response')>>
    /\ \E fault \in BOOLEAN : escaped' = fault
    /\ pc' = "done"
    /\ UNCHANGED <<variant, ALLOWED_ORIGIN, headers, query, symbol,
                   all_expirations, target_expiration, options_chain,
                   current_price, exc, pureVars>>

(* ------------------------------------------------------------------ *)
(* The request handler as a state machine                               *)
(* ------------------------------------------------------------------ *)
PureIdle == job = [op |-> "none"] /\ result = [op |-> "none"]

Init ==
    /\ variant \in Variants
    /\ ALLOWED_ORIGIN \in AllowedOrigins
    /\ headers \in HeaderPairs
    /\ query \in [symbol : Symbols, expiration : Expirations]
    \* index.py reads neither the headers, nor ALLOWED_ORIGIN, nor an
    \* expiration parameter
    /\ variant = "get_options" =>
          /\ ALLOWED_ORIGIN = DefaultOrigin
          /\ headers = [Origin |-> Absent, Referer |-> Absent]
          /\ query.expiration = AbsentDate
          \* FastAPI calls get_options with a str
          /\ query.symbol.present
    /\ pc = IF variant = "do_GET" THEN "start" ELSE "parse"
    /\ symbol = <<>>
    /\ all_expirations = <<>>
    /\ target_expiration = ""
    /\ options_chain = NoChain
    /\ current_price = None
    /\ response = NoBody
    /\ exc = ""
    /\ log = <<>>
    /\ out = <<>>
    /\ escaped = FALSE
    /\ PureIdle

Next ==
    \/ Authorize
    \/ Parse
    \/ FetchExpirations
    \/ FetchChain
    \/ PriceInfo
    \/ PriceFast
    \/ PriceHistory
    \/ Build
    \/ HandleException

Spec == Init /\ [][Next]_vars

(* ------------------------------------------------------------------ *)
(* The pure functions on bounded inputs                                 *)
(* ------------------------------------------------------------------ *)
\* Scalars handed to safe_float and safe_int.
ScalarValues ==
    { None, NaT, NaN, Inf, NegInf, PyFloat(0), PyFloat(5), PyInt(3),
      PyBool(TRUE), PyStr("abc"), PyStr("7"), Timestamp(1),
      NpFloat64("fin", 8), NpFloat64("nan", 0), NpFloat64("inf", 0),
      NpFloat32("fin", 5), NpFloat32("nan", 0), NpFloat32("inf", 0),
      NpFloat32("ninf", 0) }

\* Values a cell of a provider table may hold after to_dict('records'):
\* timestamps in the date column, numbers elsewhere, missing values and
\* text anywhere.
CellValues(col) ==
    { None, NaN, PyFloat(5), PyInt(3), PyStr("abc") }
    \cup (IF col = "lastTradeDate" THEN {NaT, Timestamp(1)} ELSE {Inf, PyStr("7")})

\* Column sets of a provider table: all modelled columns, a table that
\* lacks the optional ones, a table with no canonical column.
ColumnSets ==
    { ChainColumns, {"contractSymbol", "strike"}, {"currency"} }

\* Rows over a column set: a well-formed row with one cell replaced.
RowsOver(cols) ==
    { [c \in cols |-> GoodRow[c]] }
    \cup UNION { { [c \in cols |-> IF c = p THEN v ELSE GoodRow[c]] :
                     v \in CellValues(p) } :
                   p \in cols \ {"currency"} }

\* Tables of at most MaxRows rows.
Tables ==
    UNION { UNION { [columns : {cols}, rows : [1..n -> RowsOver(cols)]] :
                    n \in 0..MaxRows } :
            cols \in ColumnSets }

Jobs ==
    { [op |-> "safe_float", value |-> v] : v \in ScalarValues }
    \cup { [op |-> "safe_int", value |-> v] : v \in ScalarValues }
    \cup { [op |-> "clean_options_data", variant |-> w, df |-> d,
            expiration_date |-> "2024-01-19"] : w \in Variants, d \in Tables }

HandlerIdle ==
    /\ variant = "do_GET"
    /\ ALLOWED_ORIGIN = DefaultOrigin
    /\ headers = [Origin |-> Absent, Referer |-> Absent]
    /\ query = [symbol |-> Absent, expiration |-> AbsentDate]
    /\ pc = "idle"
    /\ symbol = <<>>
    /\ all_expirations = <<>>
    /\ target_expiration = ""
    /\ options_chain = NoChain
    /\ current_price = None
    /\ response = NoBody
    /\ exc = ""
    /\ log = <<>>
    /\ out = <<>>
    /\ escaped = FALSE

InitPure ==
    /\ HandlerIdle
    /\ job \in Jobs
    /\ result = [op |-> "none"]

RunSafeFloat ==
    /\ job.op = "safe_float"
    /\ result.op = "none"
    /\ result' = [op |-> "safe_float", value |-> safe_float(job.value)]
    /\ UNCHANGED <<job, handlerVars>>

RunSafeInt ==
    /\ job.op = "safe_int"
    /\ result.op = "none"
    /\ result' = [op |-> "safe_int", value |-> safe_int(job.value)]
    /\ UNCHANGED <<job, handlerVars>>

RunClean ==
    /\ job.op = "clean_options_data"
    /\ result.op = "none"
    /\ LET cleaned == clean_options_data(job.variant, job.df, job.expiration_date)
       IN result' = [op |-> "clean_options_data",
                     raised |-> cleaned.raised,
                     records |-> cleaned.records]
    /\ UNCHANGED <<job, handlerVars>>

NextPure == RunSafeFloat \/ RunSafeInt \/ RunClean

SpecPure == InitPure /\ [][NextPure]_vars

(* ------------------------------------------------------------------ *)
(* Vocabulary of the properties                                         *)
(* ------------------------------------------------------------------ *)
ProviderNames == {"options", "option_chain", "info", "fast_info", "history"}

PriceNames == {"info", "fast_info", "history"}

\* The provider calls made so far, in order.
ProviderCalls == SelectSeq(log, LAMBDA e : e.name \in ProviderNames)

\* The price lookups made so far, in order.
PriceCalls == SelectSeq(log, LAMBDA e : e.name \in PriceNames)

\* The status lines sent so far, and the bodies written so far.
StatusLines == SelectSeq(out, LAMBDA e : e.op = "send_response")

Bodies == SelectSeq(out, LAMBDA e : e.op = "wfile.write")

StatusCodes == {StatusLines[i].code : i \in 1..Len(StatusLines)}

FirstStatusIs(code) == StatusLines # <<>> /\ StatusLines[1].code = code

\* A body with a single message field / with the options payload.
IsErrorBody(body) == DOMAIN body \in {{"error"}, {"detail"}}

IsPayload(body) == "calls" \in DOMAIN body

NoPayloadWritten == \A i \in 1..Len(Bodies) : ~IsPayload(Bodies[i].body)

\* The expiration a payload reports, under either field name.
SelectedOf(body) ==
    IF "selectedExpiration" \in DOMAIN body THEN body.selectedExpiration
    ELSE body.expirationDate

MissingSymbol == ~query.symbol.present \/ query.symbol.s = <<>>

GateActive == variant = "do_GET" /\ ~contains(ALLOWED_ORIGIN, LOCALHOST)

HeaderMatches(h) == h.present /\ startswith(h.s, ALLOWED_ORIGIN)

\* Two numbers equal as Python compares them (0.0 == 0).
NumEq(a, b) ==
    a.t \in NumberTypes /\ b.t \in NumberTypes /\ a.k = b.k /\ a.v = b.v

(* ------------------------------------------------------------------ *)
(* C1                                                                   *)
(* ------------------------------------------------------------------ *)
\* C1: every GET request handled by do_GET ends with exactly one status
\* line / header block and exactly one JSON body, on every path, a fault
\* while writing the 200 body included.
C1_ExactlyOneResponse ==
    (variant = "do_GET" /\ pc = "done") =>
        (Len(StatusLines) = 1 /\ Len(Bodies) = 1)

C3_OriginGate ==
    (GateActive /\ log # <<>>) =>
        IF ~HeaderMatches(headers.Origin) /\ ~HeaderMatches(headers.Referer)
        THEN /\ FirstStatusIs(403)
             /\ \A i \in 1..Len(log) : log[i].name \notin ProviderNames \cup {"parse"}
             /\ symbol = <<>>
        ELSE /\ 403 \notin StatusCodes
             /\ Len(log) = 1 => pc = "parse"
             /\ Len(log) > 1 => log[2].name = "parse"

C3_Witness ==
    /\ pc = "done"
    /\ GateActive
    /\ headers.Origin = Given(OtherOrigin)
    /\ headers.Referer = Given(OtherOrigin)
    /\ Len(StatusLines) = 1 /\ StatusLines[1].code = 403

(* ------------------------------------------------------------------ *)
(* C4                                                                   *)
(* ------------------------------------------------------------------ *)
\* ticker.options answered without raising and left no expiration.
EmptyExpirations ==
    /\ \E i \in 1..Len(log) : log[i].name = "options" /\ ~log[i].raised
    /\ all_expirations = <<>>

\* C4: when the expiration list is empty or None the handler answers 404
\* and stops: no chain fetch, no price lookup, no calls / puts payload.
C4_NoExpirations404 ==
    EmptyExpirations =>
        /\ FirstStatusIs(404)
        /\ Len(ProviderCalls) = 1
        /\ NoPayloadWritten
        /\ Bodies # <<>> /\ IsErrorBody(Bodies[1].body)

C4_Witness ==
    /\ EmptyExpirations
    /\ pc = "done"
    /\ Len(StatusLines) = 1 /\ StatusLines[1].code = 404

PriceOrder == <<"info", "fast_info", "history">>

\* The price the lookups made so far yield: the last one's, when it is a
\* finite number, else 0.
ResolvedPrice ==
    IF PriceCalls # <<>> /\ IsFinite(PriceCalls[Len(PriceCalls)].ret)
    THEN PriceCalls[Len(PriceCalls)].ret
    ELSE PyInt(0)

\* C6: the price is resolved by three methods tried strictly in order
\* (live quote, fast quote, one day of history), a later one only after
\* every earlier one faulted or returned nothing; currentPrice is the value
\* of the first that succeeded and 0 when all fail; with the live quote
\* faulting, the fast quote absent and a non-empty history, currentPrice
\* is the last close.
C6_ThreeMethodsInOrder ==
    /\ \A i \in 1..Len(PriceCalls) : PriceCalls[i].name = PriceOrder[i]
    /\ \A i \in 2..Len(PriceCalls) : PriceCalls[i - 1].ret = None
    /\ (pc = "done" /\ exc = "" /\ IsPayload(response)) =>
          NumEq(response.currentPrice, ResolvedPrice)

(* ------------------------------------------------------------------ *)
(* C7                                                                   *)
(* ------------------------------------------------------------------ *)
\* Faults that are not the price resolution's: a table that cannot be
\* cleaned, a body that cannot be written.
OtherFaults == {"clean_options_data: ValueError", "BrokenPipeError"}

\* C7: once the expiration and chain checks are passed, whatever the price
\* methods return or raise, the request is answered 200 with a finite
\* currentPrice and never 500.
C7_PriceNeverFails ==
    (pc = "done" /\ PriceCalls # <<>> /\ exc \notin OtherFaults) =>
        /\ StatusCodes = {200}
        /\ IsPayload(response) /\ IsFinite(response.currentPrice)

(* ------------------------------------------------------------------ *)
(* C8                                                                   *)
(* ------------------------------------------------------------------ *)
\* A fault of steps 3-8 that no narrower fallback absorbed.
StepFault == exc \notin {"", "BrokenPipeError"}

\* C8: a fault raised during steps 3-8 and not absorbed is answered 500
\* with an error message; no 200 status and no part of the payload is sent.
C8_FaultGives500 ==
    StepFault =>
        /\ 200 \notin StatusCodes
        /\ NoPayloadWritten
        /\ pc = "done" =>
              /\ Len(StatusLines) = 1 /\ StatusLines[1].code = 500
              /\ Len(Bodies) = 1 /\ IsErrorBody(Bodies[1].body)

C8_Witness ==
    /\ pc = "done"
    /\ exc = "option_chain"
    /\ Len(StatusLines) = 1 /\ StatusLines[1].code = 500

(* ------------------------------------------------------------------ *)
(* C9                                                                   *)
(* ------------------------------------------------------------------ *)
\* C9: clean_options_data never raises for a malformed field value; it
\* returns one record per input row.
C9_CleanNeverRaises ==
    result.op = "clean_options_data" =>
        /\ ~result.raised
        /\ Len(result.records) = Len(job.df.rows)

(* ------------------------------------------------------------------ *)
(* C10                                                                  *)
(* ------------------------------------------------------------------ *)
\* The fields clean_options_data hands to safe_float.
FloatFields(w) ==
    Range(columns_to_keep(w))
        \ ({"contractSymbol", "inTheMoney"}
           \cup (IF w = "do_GET" THEN {"volume", "openInterest", "lastTradeDate"}
                 ELSE {}))

FiniteOrNull(x) == x = None \/ (x.t = "float" /\ x.k = "fin")

\* C10: safe_float gives None for None, the missing sentinel, NaN and
\* +-Infinity of any numeric type, and the float cast of every finite
\* number; so every float field emitted is a finite number or null.
C10_FloatsFiniteOrNull ==
    /\ result.op = "safe_float" =>
          /\ (job.value.t \in {"NoneType", "NaTType"} \/ IsNonFinite(job.value))
                => result.value = None
          /\ IsFinite(job.value) => result.value = PyFloat(job.value.v)
    /\ (result.op = "clean_options_data" /\ ~result.raised) =>
          \A i \in 1..Len(result.records) :
              \A key \in DOMAIN result.records[i] \cap FloatFields(job.variant) :
                  FiniteOrNull(result.records[i][key])

====
